---- MODULE Spec2Model ----
(***************************************************************************)
(* Model of the video-download endpoint of MoonTV                          *)
(* (src/app/api/download/route.ts): the POST handler and convertHLSToMP4,  *)
(* the ffmpeg child process with its close / error / stderr events, the    *)
(* ten-minute timer, and the temporary output file.                        *)
(*                                                                         *)
(* A JavaScript string is a sequence of one-character strings, so that     *)
(* String.prototype.includes, String.prototype.replace and template        *)
(* literals are computed character by character.  A character outside      *)
(* ASCII is written by its code point ("U+89C6").  A fixed message that is *)
(* only ever compared as a whole is one opaque string.                     *)
(***************************************************************************)
EXTENDS Integers, Sequences, FiniteSets, TLC

\* Concurrent invocations of POST (one per HTTP request being served).
Requests == {"r1", "r2"}

\* The most stderr 'data' events one ffmpeg process delivers.
MaxChunks == 2
\* The most bytes one ffmpeg process writes to its output file.
MaxBytes == 2
\* The number of distinct values randomUUID() can return.
NumUUIDs == 2

UUIDs == 1..NumUUIDs

----------------------------------------------------------------------------
(* Strings *)

\* Mutant of Includes: the marker is looked for at the end only (endsWith).
EndsWith(hay, needle) ==
  /\ Len(hay) >= Len(needle)
  /\ \A j \in 1..Len(needle) : hay[Len(hay) - Len(needle) + j] = needle[j]

\* "abc".includes(".m3u8"): needle occurs in hay at some offset.
Includes(hay, needle) ==
  \E i \in 0..(Len(hay) - Len(needle)) :
     \A j \in 1..Len(needle) : hay[i + j] = needle[j]

M3U8 == <<".", "m", "3", "u", "8">>

\* \w of a RegExp without the u flag: [A-Za-z0-9_]
WordChars == {"a", "b", "c", "M", "y", "C", "l", "i", "p", "m", "u",
              "0", "1", "3", "4", "8", "_"}
\* \s of a RegExp: white space and line terminators
SpaceChars == {" ", "\t", "\n", "\r"}

\* str.replace(/[^\w\s-]/g, ''): drop every character that is neither \w,
\* \s nor a hyphen.
RECURSIVE StripUnsafe(_)
StripUnsafe(s) ==
  IF s = <<>> THEN <<>>
  ELSE IF Head(s) \in WordChars \cup SpaceChars \cup {"-"}
       THEN <<Head(s)>> \o StripUnsafe(Tail(s))
       ELSE StripUnsafe(Tail(s))

\* The default name of route.ts:23, two CJK characters.
DefaultName == <<"U+89C6", "U+9891">>
DotMp4 == <<".", "m", "p", "4">>

\* A JSON field that may be missing: present = FALSE is undefined.
Undefined == [present |-> FALSE, val |-> <<>>]
Str(s) == [present |-> TRUE, val |-> s]
\* Mutant of Truthy: only undefined is refused (videoUrl === undefined).
DefinedOnly(x) == x.present

\* JavaScript truthiness of an optional string: undefined and "" are falsy.
Truthy(x) == x.present /\ x.val # <<>>

\* (fileName || DefaultName).replace(/[^\w\s-]/g, '') + '.mp4'
SafeFileName(fileName) ==
  StripUnsafe(IF Truthy(fileName) THEN fileName.val ELSE DefaultName) \o DotMp4

\* Number.prototype.toString() of a non-negative integer.
Digits == <<"0", "1", "2", "3", "4", "5", "6", "7", "8", "9">>
RECURSIVE NumToString(_)
NumToString(n) ==
  IF n < 10 THEN <<Digits[n + 1]>>
  ELSE NumToString(n \div 10) \o <<Digits[(n % 10) + 1]>>

----------------------------------------------------------------------------
(* Request bodies *)

UrlHls == <<"a", ".", "m", "3", "u", "8">>
\* .m3u8 only inside the query string, followed by a double quote
UrlQuery == <<"a", "?", ".", "m", "3", "u", "8", "\"", "b">>
UrlMp4 == <<"a", ".", "m", "p", "4">>
\* a proper prefix of the marker only
UrlNear == <<"a", ".", "m", "3", "u">>

HintClip == <<"M", "y", " ", "C", "!">>

\* The bodies request.json() can yield: { videoUrl, fileName }.
Bodies ==
  { [videoUrl |-> Str(UrlHls), fileName |-> Str(HintClip)],
    [videoUrl |-> Str(UrlHls), fileName |-> Undefined],
    [videoUrl |-> Str(UrlQuery), fileName |-> Str(HintClip)],
    [videoUrl |-> Str(UrlMp4), fileName |-> Str(HintClip)],
    [videoUrl |-> Str(UrlNear), fileName |-> Undefined],
    [videoUrl |-> Str(<<>>), fileName |-> Str(HintClip)],
    [videoUrl |-> Undefined, fileName |-> Str(HintClip)] }

----------------------------------------------------------------------------
(* Responses *)

\* No response has been returned yet.
NoResponse == [pending |-> TRUE]

\* route.ts:17-20
BadRequest == [status |-> 400, error |-> "missing videoUrl"]

\* route.ts:28-33
DirectLink(url, safeName) ==
  [status |-> 200, success |-> TRUE, directDownload |-> TRUE,
   url |-> url, fileName |-> safeName]

\* route.ts:47-53: the file as the body, with its three headers.
Transcoded(fileBuffer, safeName) ==
  [status |-> 200, body |-> fileBuffer,
   contentType |-> "video/mp4",
   contentDisposition |->
     <<"attachment; filename=", "\"">> \o safeName \o <<"\"">>,
   contentLength |-> NumToString(Len(fileBuffer))]

\* route.ts:62-85: the four suggested tools.
Methods(url, safeName) ==
  << [name |-> "yt-dlp",
      command |-> <<"yt-dlp", " ", "\"">> \o url \o
                  <<"\"", " ", "-o", " ", "\"">> \o safeName \o <<"\"">>],
     [name |-> "FFmpeg",
      command |-> <<"ffmpeg", " ", "-i", " ", "\"">> \o url \o
                  <<"\"", " ", "-c", " ", "copy", " ", "\"">> \o
                  safeName \o <<"\"">>],
     [name |-> "IDM", note |-> "paste the link"],
     [name |-> "Xunlei", note |-> "supports HLS"] >>

\* route.ts:58-88
Failed(url, safeName) ==
  [status |-> 200, success |-> FALSE, error |-> "HLS conversion failed",
   suggestion |-> "use one of these tools",
   methods |-> Methods(url, safeName),
   videoUrl |-> url, fileName |-> safeName]

\* route.ts:92-98
InternalError(message) ==
  [status |-> 500, error |-> "internal server error", details |-> message]

----------------------------------------------------------------------------
(* Errors, exit codes, paths, promises *)

\* The code a 'close' event carries: 0, a non-zero exit status, the negated
\* errno of a failed spawn, or null after death by a signal.
ExitCodes == {"0", "1", "-2", "null"}

NoError == [message |-> <<>>]
\* route.ts:138  Error(`...exit code: ${code}\n${stderr}`)
CloseError(code, diag) ==
  [message |-> <<"FFmpeg failed, exit code: ", code, "\n">> \o diag]
\* The error child_process emits when ffmpeg cannot be started.
SpawnENOENT == [message |-> <<"spawn ffmpeg ENOENT">>]
\* route.ts:144  Error(`...process error: ${error.message}`)
ProcessError(error) ==
  [message |-> <<"FFmpeg process error: ">> \o error.message]
\* route.ts:150
TimeoutError == [message |-> <<"FFmpeg timed out">>]
\* The rejection of fs.readFile.
ReadError == [message |-> <<"readFile failed">>]
\* What request.json() throws on a body that is not JSON.
SyntaxError == [message |-> <<"Unexpected token">>]

\* join(tmpdir(), `${uuid}_${fileName}`)
NoPath == [uuid |-> 0, name |-> <<>>]
\* Mutant of TmpPath: the path is built from the file name alone.
TmpPathOfName(uuid, safeName) == [uuid |-> NoPath.uuid, name |-> safeName]

TmpPath(uuid, safeName) == [uuid |-> uuid, name |-> safeName]

\* The promise convertHLSToMP4 returns: settled once, then immutable.
NoPromise == [state |-> "none", path |-> NoPath, error |-> NoError]
Pending == [state |-> "pending", path |-> NoPath, error |-> NoError]
\* Mutant of Resolve: a late exit with code 0 replaces the settled result.
ResolveOverwrites(p, path) ==
  IF p.state = "none" THEN p
  ELSE [state |-> "fulfilled", path |-> path, error |-> NoError]

Resolve(p, path) ==
  IF p.state = "pending"
  THEN [state |-> "fulfilled", path |-> path, error |-> NoError]
  ELSE p
\* Mutant of Reject: a later rejection replaces the settled result.
RejectOverwrites(p, err) ==
  IF p.state = "none" THEN p
  ELSE [state |-> "rejected", path |-> NoPath, error |-> err]

Reject(p, err) ==
  IF p.state = "pending"
  THEN [state |-> "rejected", path |-> NoPath, error |-> err]
  ELSE p

\* The bytes of a stderr chunk and data.toString() on them.
ChunkBytes == {101, 119}
ByteToChar(b) == IF b = 101 THEN "e" ELSE "w"
DataToString(data) == [i \in 1..Len(data) |-> ByteToChar(data[i])]
\* The stderr chunks ffmpeg can emit.
Chunks == {<<b>> : b \in ChunkBytes}

\* A byte ffmpeg writes to its output.
OutByte == "x"

----------------------------------------------------------------------------
(* State *)

VARIABLES
  pc,            \* where each invocation of POST is
  videoUrl,      \* POST: videoUrl
  fileName,      \* POST: fileName
  safeFileName,  \* POST: safeFileName
  promise,       \* the promise of convertHLSToMP4
  outputPath,    \* convertHLSToMP4: outputPath
  stderr,        \* convertHLSToMP4: stderr
  proc,          \* the ffmpeg child process
  closeCode,     \* the code its 'close' event carried
  emitted,       \* the stderr chunks it has emitted, in order
  killed,        \* SIGKILL has been sent to the child
  timer,         \* the setTimeout of convertHLSToMP4
  files,         \* the temporary directory: path -> contents
  fileBuffer,    \* POST: fileBuffer
  ffmpegError,   \* POST: the error caught at route.ts:54
  response,      \* what POST returned
  unlinkResult,  \* how the promise of fs.unlink settled
  calls,         \* how often spawn, readFile, unlink and kill were called
  settled        \* the resolve / reject calls made on the promise, in order

vars == <<pc, videoUrl, fileName, safeFileName, promise, outputPath, stderr,
          proc, closeCode, emitted, killed, timer, files, fileBuffer, ffmpegError, response,
          unlinkResult, calls, settled>>

NoCalls == [spawn |-> 0, readFile |-> 0, unlink |-> 0, kill |-> 0]

Init ==
  /\ pc = [r \in Requests |-> "idle"]
  /\ videoUrl = [r \in Requests |-> Undefined]
  /\ fileName = [r \in Requests |-> Undefined]
  /\ safeFileName = [r \in Requests |-> <<>>]
  /\ promise = [r \in Requests |-> NoPromise]
  /\ outputPath = [r \in Requests |-> NoPath]
  /\ stderr = [r \in Requests |-> <<>>]
  /\ proc = [r \in Requests |-> "none"]
  /\ closeCode = [r \in Requests |-> "none"]
  /\ emitted = [r \in Requests |-> <<>>]
  /\ killed = [r \in Requests |-> FALSE]
  /\ timer = [r \in Requests |-> "none"]
  /\ files = [p \in {} |-> <<>>]
  /\ fileBuffer = [r \in Requests |-> <<>>]
  /\ ffmpegError = [r \in Requests |-> NoError]
  /\ response = [r \in Requests |-> NoResponse]
  /\ unlinkResult = [r \in Requests |-> "none"]
  /\ calls = [r \in Requests |-> NoCalls]
  /\ settled = [r \in Requests |-> <<>>]

\* randomUUID(): a value no earlier call returned.
FreshUUIDs == UUIDs \ {outputPath[q].uuid : q \in Requests}

\* The states a spawn of ffmpeg can start in: it runs and will exit, it runs
\* and never exits by itself, or it could not be started.
SpawnOutcomes == {"running", "hung", "spawnfail"}

Alive(r) == proc[r] \in {"running", "hung"}

Bump(r, what) == [calls EXCEPT ![r][what] = @ + 1]

----------------------------------------------------------------------------
(* POST, up to its first await on the ffmpeg promise: route.ts:12-38 *)

\* request.json() throws: the outer catch answers 500 (route.ts:14, 90-98).
PostBadJson(r) ==
  /\ pc[r] = "idle"
  /\ pc' = [pc EXCEPT ![r] = "done"]
  /\ response' = [response EXCEPT ![r] = InternalError(SyntaxError.message)]
  /\ UNCHANGED <<fileName, closeCode, emitted, unlinkResult, videoUrl, safeFileName, promise, outputPath, stderr, proc,
                 killed, timer, files, fileBuffer, ffmpegError, calls,
                 settled>>

\* !videoUrl: 400 (route.ts:16-21).
PostMissingUrl(r, b) ==
  /\ pc[r] = "idle"
  /\ ~Truthy(b.videoUrl)
  /\ pc' = [pc EXCEPT ![r] = "done"]
  /\ videoUrl' = [videoUrl EXCEPT ![r] = b.videoUrl]
  /\ fileName' = [fileName EXCEPT ![r] = b.fileName]
  /\ response' = [response EXCEPT ![r] = BadRequest]
  /\ UNCHANGED <<closeCode, emitted, unlinkResult, safeFileName, promise, outputPath, stderr, proc, killed,
                 timer, files, fileBuffer, ffmpegError, calls, settled>>

\* videoUrl.includes('.m3u8')
IsHLS(url) == Includes(url, M3U8)

\* Not an HLS stream: the direct link (route.ts:23-34).
PostDirect(r, b) ==
  /\ pc[r] = "idle"
  /\ Truthy(b.videoUrl)
  /\ ~IsHLS(b.videoUrl.val)
  /\ pc' = [pc EXCEPT ![r] = "done"]
  /\ videoUrl' = [videoUrl EXCEPT ![r] = b.videoUrl]
  /\ fileName' = [fileName EXCEPT ![r] = b.fileName]
  /\ safeFileName' = [safeFileName EXCEPT ![r] = SafeFileName(b.fileName)]
  /\ response' = [response EXCEPT ![r] =
                    DirectLink(b.videoUrl.val, SafeFileName(b.fileName))]
  /\ UNCHANGED <<closeCode, emitted, unlinkResult, promise, outputPath, stderr, proc, killed, timer, files,
                 fileBuffer, ffmpegError, calls, settled>>

\* An HLS stream: convertHLSToMP4 allocates the path, spawns ffmpeg, installs
\* the handlers and the timer; POST awaits its promise (route.ts:38, 108-152).
PostHLS(r, b, uuid, outcome) ==
  /\ pc[r] = "idle"
  /\ Truthy(b.videoUrl)
  /\ IsHLS(b.videoUrl.val)
  /\ uuid \in FreshUUIDs
  /\ pc' = [pc EXCEPT ![r] = "convert"]
  /\ videoUrl' = [videoUrl EXCEPT ![r] = b.videoUrl]
  /\ fileName' = [fileName EXCEPT ![r] = b.fileName]
  /\ safeFileName' = [safeFileName EXCEPT ![r] = SafeFileName(b.fileName)]
  /\ outputPath' = [outputPath EXCEPT ![r] =
                      TmpPath(uuid, SafeFileName(b.fileName))]
  /\ promise' = [promise EXCEPT ![r] = Pending]
  /\ proc' = [proc EXCEPT ![r] = outcome]
  /\ timer' = [timer EXCEPT ![r] = "armed"]
  /\ calls' = Bump(r, "spawn")
  /\ UNCHANGED <<closeCode, emitted, unlinkResult, stderr, killed, files, fileBuffer, ffmpegError, response,
                 settled>>

----------------------------------------------------------------------------
(* The ffmpeg process and the handlers of convertHLSToMP4 *)

\* ffmpeg appends a byte to its output file, creating it if need be.
FfmpegWrite(r) ==
  /\ Alive(r)
  /\ LET path == outputPath[r]
         old == IF path \in DOMAIN files THEN files[path] ELSE <<>>
     IN /\ Len(old) < MaxBytes
        /\ files' = [p \in DOMAIN files \cup {path} |->
                       IF p = path THEN Append(old, OutByte) ELSE files[p]]
  /\ UNCHANGED <<fileName, closeCode, emitted, unlinkResult, pc, videoUrl, safeFileName, promise, outputPath, stderr,
                 proc, killed, timer, fileBuffer, ffmpegError, response,
                 calls, settled>>

\* Mutant of StderrData: stderr = data.toString(), the last chunk only.
StderrDataReplaces(r, data) ==
  /\ Alive(r)
  /\ Len(stderr[r]) < MaxChunks
  /\ stderr' = [stderr EXCEPT ![r] = DataToString(data)]
  /\ emitted' = [emitted EXCEPT ![r] = Append(@, data)]
  /\ UNCHANGED <<fileName, closeCode, pc, videoUrl, safeFileName, promise,
                 outputPath, proc, killed, timer, files, fileBuffer,
                 ffmpegError, response, unlinkResult, calls, settled>>

\* ffmpeg.stderr.on('data'): stderr += data.toString() (route.ts:128-130)
StderrData(r, data) ==
  /\ Alive(r)
  /\ Len(stderr[r]) < MaxChunks
  /\ stderr' = [stderr EXCEPT ![r] = @ \o DataToString(data)]
  /\ emitted' = [emitted EXCEPT ![r] = Append(@, data)]
  /\ UNCHANGED <<fileName, closeCode, unlinkResult, pc, videoUrl, safeFileName, promise, outputPath, proc,
                 killed, timer, files, fileBuffer, ffmpegError, response,
                 calls, settled>>

\* The codes the next 'close' event of r's process can carry.
CloseCodes(r) ==
  CASE proc[r] = "running" -> IF killed[r] THEN {"0", "1", "null"}
                              ELSE {"0", "1"}
    [] proc[r] = "hung"    -> IF killed[r] THEN {"null"} ELSE {}
    [] proc[r] = "failed"  -> {"-2"}
    [] OTHER               -> {}

\* What the 'close' handler does to the promise (route.ts:132-140).
CloseSettles(p, code, path, diag) ==
  IF code = "0" THEN Resolve(p, path) ELSE Reject(p, CloseError(code, diag))

\* ffmpeg.on('close', (code) => ...)
OnClose(r, code) ==
  /\ code \in CloseCodes(r)
  /\ proc' = [proc EXCEPT ![r] = "closed"]
  /\ closeCode' = [closeCode EXCEPT ![r] = code]
  /\ promise' = [promise EXCEPT ![r] =
                   CloseSettles(@, code, outputPath[r], stderr[r])]
  /\ settled' = [settled EXCEPT ![r] =
                   Append(@, CloseSettles(Pending, code, outputPath[r],
                                          stderr[r]))]
  /\ UNCHANGED <<fileName, emitted, unlinkResult, pc, videoUrl, safeFileName, outputPath, stderr, killed,
                 timer, files, fileBuffer, ffmpegError, response, calls>>

\* Mutant of OnError: the handler logs the error and does not reject.
OnErrorLogsOnly(r) ==
  /\ proc[r] = "spawnfail"
  /\ proc' = [proc EXCEPT ![r] = "failed"]
  /\ UNCHANGED <<fileName, closeCode, emitted, pc, videoUrl, safeFileName,
                 promise, outputPath, stderr, killed, timer, files,
                 fileBuffer, ffmpegError, response, unlinkResult, calls,
                 settled>>

\* ffmpeg.on('error', (error) => ...): the spawn failed (route.ts:142-145)
OnError(r) ==
  /\ proc[r] = "spawnfail"
  /\ proc' = [proc EXCEPT ![r] = "failed"]
  /\ promise' = [promise EXCEPT ![r] = Reject(@, ProcessError(SpawnENOENT))]
  /\ settled' = [settled EXCEPT ![r] =
                   Append(@, Reject(Pending, ProcessError(SpawnENOENT)))]
  /\ UNCHANGED <<fileName, closeCode, emitted, unlinkResult, pc, videoUrl, safeFileName, outputPath, stderr, killed,
                 timer, files, fileBuffer, ffmpegError, response, calls>>

\* Mutant of Kill: the callback rejects but sends no signal.
KillForgotten(r) == killed

\* ffmpeg.kill('SIGKILL'): the signal reaches a child that is still alive.
Kill(r) == [killed EXCEPT ![r] = @ \/ Alive(r)]

\* Mutant of TimeoutSettles: the callback kills but does not reject.
TimeoutKeepsPending(p) == p

\* What the timer callback does to the promise (route.ts:150).
TimeoutSettles(p) == Reject(p, TimeoutError)

\* The setTimeout callback, ten minutes after the spawn (route.ts:148-151).
\* Nothing clears the timer, so it fires whatever has happened meanwhile.
\* The 'error' event of a failed spawn is emitted on the next tick, hence
\* before the timer.
OnTimeout(r) ==
  /\ timer[r] = "armed"
  /\ proc[r] # "spawnfail"
  /\ timer' = [timer EXCEPT ![r] = "fired"]
  /\ killed' = Kill(r)
  /\ calls' = Bump(r, "kill")
  /\ promise' = [promise EXCEPT ![r] = TimeoutSettles(@)]
  /\ settled' = [settled EXCEPT ![r] = Append(@, TimeoutSettles(Pending))]
  /\ UNCHANGED <<fileName, closeCode, emitted, unlinkResult, pc, videoUrl, safeFileName, outputPath, stderr, proc, files,
                 fileBuffer, ffmpegError, response>>

----------------------------------------------------------------------------
(* POST after the await: route.ts:38-89 *)

\* The promise fulfilled: POST calls fs.readFile(outputPath) (route.ts:41).
AwaitFulfilled(r) ==
  /\ pc[r] = "convert"
  /\ promise[r].state = "fulfilled"
  /\ pc' = [pc EXCEPT ![r] = "read"]
  /\ calls' = Bump(r, "readFile")
  /\ UNCHANGED <<fileName, closeCode, emitted, unlinkResult, videoUrl, safeFileName, promise, outputPath, stderr, proc,
                 killed, timer, files, fileBuffer, ffmpegError, response,
                 settled>>

\* Mutant of Catch: the failed conversion is tried again from the start.
CatchRetries(r, error) ==
  /\ pc' = [pc EXCEPT ![r] = "idle"]
  /\ ffmpegError' = [ffmpegError EXCEPT ![r] = error]
  /\ response' = response

\* Mutant of Catch: the error is thrown on, into the outer catch.
CatchRethrows(r, error) ==
  /\ pc' = [pc EXCEPT ![r] = "done"]
  /\ ffmpegError' = [ffmpegError EXCEPT ![r] = error]
  /\ response' = [response EXCEPT ![r] = InternalError(error.message)]

\* The catch block of route.ts:54-89: the error is logged and the list of
\* tools returned.
Catch(r, error) ==
  /\ pc' = [pc EXCEPT ![r] = "done"]
  /\ ffmpegError' = [ffmpegError EXCEPT ![r] = error]
  /\ response' = [response EXCEPT ![r] =
                    Failed(videoUrl[r].val, safeFileName[r])]

\* The promise rejected: the await throws into the catch block.
AwaitRejected(r) ==
  /\ pc[r] = "convert"
  /\ promise[r].state = "rejected"
  /\ Catch(r, promise[r].error)
  /\ UNCHANGED <<fileName, closeCode, emitted, unlinkResult, videoUrl, safeFileName, promise, outputPath, stderr, proc,
                 killed, timer, files, fileBuffer, calls, settled>>

\* What fs.readFile yields for a file that is there and readable.
ReadFile(path) == files[path]

\* readFile succeeded: POST keeps the bytes and calls fs.unlink(outputPath)
\* (route.ts:41-44).
ReadFileOk(r) ==
  /\ pc[r] = "read"
  /\ promise[r].path \in DOMAIN files
  /\ fileBuffer' = [fileBuffer EXCEPT ![r] = ReadFile(promise[r].path)]
  /\ pc' = [pc EXCEPT ![r] = "unlink"]
  /\ unlinkResult' = [unlinkResult EXCEPT ![r] = "pending"]
  /\ calls' = Bump(r, "unlink")
  /\ UNCHANGED <<fileName, closeCode, emitted, videoUrl, safeFileName, promise, outputPath, stderr, proc,
                 killed, timer, files, ffmpegError, response, settled>>

\* readFile failed (no such file, or an I/O error): the await throws into
\* the catch block, past the unlink.
ReadFileFail(r) ==
  /\ pc[r] = "read"
  /\ Catch(r, ReadError)
  /\ UNCHANGED <<fileName, closeCode, emitted, unlinkResult, videoUrl, safeFileName, promise, outputPath, stderr, proc,
                 killed, timer, files, fileBuffer, calls, settled>>

\* Mutant of Unlinked: the unlink reports success and removes nothing.
UnlinkedNothing(path) == files

\* The directory after path has been unlinked.
Unlinked(path) == [p \in DOMAIN files \ {path} |-> files[p]]

\* The response of route.ts:47-53.
Reply(r) == Transcoded(fileBuffer[r], safeFileName[r])

\* unlink succeeded; POST returns the file (route.ts:44-53).
UnlinkOk(r) ==
  /\ pc[r] = "unlink"
  /\ promise[r].path \in DOMAIN files
  /\ files' = Unlinked(promise[r].path)
  /\ unlinkResult' = [unlinkResult EXCEPT ![r] = "fulfilled"]
  /\ pc' = [pc EXCEPT ![r] = "done"]
  /\ response' = [response EXCEPT ![r] = Reply(r)]
  /\ UNCHANGED <<fileName, closeCode, emitted, videoUrl, safeFileName, promise, outputPath, stderr, proc,
                 killed, timer, fileBuffer, ffmpegError, calls, settled>>

\* Mutant of UnlinkFail: without .catch the rejection reaches the catch
\* block.
UnlinkFailThrows(r) ==
  /\ pc[r] = "unlink"
  /\ unlinkResult' = [unlinkResult EXCEPT ![r] = "rejected"]
  /\ Catch(r, [message |-> <<"unlink failed">>])
  /\ UNCHANGED <<fileName, closeCode, emitted, videoUrl, safeFileName, promise, outputPath, stderr, proc,
                 killed, timer, files, fileBuffer, calls, settled>>

\* unlink failed: .catch(() => {}) swallows it; POST returns the file.
UnlinkFail(r) ==
  /\ pc[r] = "unlink"
  /\ unlinkResult' = [unlinkResult EXCEPT ![r] = "rejected"]
  /\ pc' = [pc EXCEPT ![r] = "done"]
  /\ response' = [response EXCEPT ![r] = Reply(r)]
  /\ UNCHANGED <<fileName, closeCode, emitted, videoUrl, safeFileName, promise, outputPath, stderr, proc,
                 killed, timer, files, fileBuffer, ffmpegError, calls,
                 settled>>

----------------------------------------------------------------------------
(* Specifications *)

\* Every step invocation r can take, its body drawn from bodies and the
\* stderr chunks of its ffmpeg from chunks.
Step(r, bodies, chunks) ==
  \/ PostBadJson(r)
  \/ \E b \in bodies : PostMissingUrl(r, b)
  \/ \E b \in bodies : PostDirect(r, b)
  \/ \E b \in bodies, u \in UUIDs, o \in SpawnOutcomes : PostHLS(r, b, u, o)
  \/ FfmpegWrite(r)
  \/ \E d \in chunks : StderrData(r, d)
  \/ \E c \in ExitCodes : OnClose(r, c)
  \/ OnError(r)
  \/ OnTimeout(r)
  \/ AwaitFulfilled(r)
  \/ AwaitRejected(r)
  \/ ReadFileOk(r)
  \/ ReadFileFail(r)
  \/ UnlinkOk(r)
  \/ UnlinkFail(r)

\* One invocation of POST on its own, on every body.
Next == Step("r1", Bodies, Chunks)

Spec == Init /\ [][Next]_vars

\* The event loop runs every callback that is due and every continuation
\* whose promise has settled, and the file system completes every call; the
\* child process owes nothing.
Fairness ==
  /\ WF_vars(OnTimeout("r1"))
  /\ WF_vars(OnError("r1"))
  /\ WF_vars(AwaitFulfilled("r1"))
  /\ WF_vars(AwaitRejected("r1"))
  /\ WF_vars(ReadFileOk("r1") \/ ReadFileFail("r1"))
  /\ WF_vars(UnlinkOk("r1") \/ UnlinkFail("r1"))

FairSpec == Spec /\ Fairness

\* The bodies of the concurrent invocations: the same HLS stream, the same
\* name, twice; or a missing URL; or a direct link.
ConcBodies ==
  { [videoUrl |-> Str(UrlHls), fileName |-> Undefined],
    [videoUrl |-> Str(UrlMp4), fileName |-> Undefined],
    [videoUrl |-> Undefined, fileName |-> Undefined] }

\* The stderr chunk of the concurrent invocations.
ConcChunks == {<<101>>}

\* Two invocations of POST running concurrently.
NextConc == \E r \in Requests : Step(r, ConcBodies, ConcChunks)

SpecConc == Init /\ [][NextConc]_vars

\* The longest fileName of the naming specification.
MaxHintLen == 2

\* The characters a fileName is made of there: a letter, a digit, the
\* underscore, a space, a newline, a tab, a hyphen, a slash, a semicolon, a
\* CJK letter and the control character BEL.
HintChars == {"a", "1", "_", " ", "\n", "\t", "-", "/", ";", "U+89C6", "U+0007"}

\* Every fileName of at most MaxHintLen characters, and the missing one.
Hints ==
  {Undefined} \cup
  {Str(h) : h \in UNION {[1..n -> HintChars] : n \in 0..MaxHintLen}}

\* POST on a direct link, for every fileName: route.ts:23 on its own.
NextNaming ==
  \E h \in Hints :
    PostDirect("r1", [videoUrl |-> Str(UrlMp4), fileName |-> h])

SpecNaming == Init /\ [][NextNaming]_vars

----------------------------------------------------------------------------
(* How a caller tells the responses apart *)

IsDirectLink(resp) == "directDownload" \in DOMAIN resp
IsTranscoded(resp) == "body" \in DOMAIN resp
IsFailed(resp) == "methods" \in DOMAIN resp
IsInternalError(resp) == "details" \in DOMAIN resp

\* The cause an error of the ffmpeg promise stands for.
FailureKind(error) ==
  CASE error = TimeoutError -> "Timeout"
    [] Head(error.message) = "FFmpeg process error: " -> "ProcessSpawnError"
    [] Head(error.message) = "FFmpeg failed, exit code: " -> "NonZeroExit"
    [] OTHER -> "OutputUnreadable"

\* The temporary file of r exists, or existed until r unlinked it.
TempFileCreated(r) ==
  outputPath[r] \in DOMAIN files \/ unlinkResult[r] = "fulfilled"

\* The number a string of decimal digits denotes.
DigitValue(c) == CHOOSE d \in 0..9 : Digits[d + 1] = c
RECURSIVE ParseInt(_)
ParseInt(str) ==
  IF str = <<>> THEN 0
  ELSE 10 * ParseInt(SubSeq(str, 1, Len(str) - 1)) + DigitValue(str[Len(str)])

\* .m3u8 occurs in url, stated on its own.
ContainsM3U8(url) ==
  \E i \in 1..Len(url) : i + 4 <= Len(url) /\ SubSeq(url, i, i + 4) = M3U8

----------------------------------------------------------------------------
(* Claims *)

\* C1: every invocation that has created a temporary file has made exactly
\* one attempt to delete it by the time it returns, whatever the exit path.
C1_OneDeletionOnEveryExit ==
  \A r \in Requests :
    (pc[r] = "done" /\ calls[r].spawn = 1 /\ TempFileCreated(r))
      => calls[r].unlink = 1

\* C2: when ffmpeg exited with 0 and reading the output failed, the deletion
\* is attempted all the same and the invocation returns Failed.
C2_UnlinkAfterFailedRead ==
  \A r \in Requests :
    (pc[r] = "done" /\ promise[r].state = "fulfilled"
       /\ ffmpegError[r] = ReadError)
      => calls[r].unlink = 1 /\ IsFailed(response[r])

\* C3: after exit code 0 and a successful read the invocation returns the
\* bytes of the file ffmpeg wrote, with their number as Content-Length, and
\* only once the unlink has completed: a successful unlink has removed the
\* file by then.
C3_TranscodedAfterUnlink ==
  \A r \in Requests :
    /\ pc[r] = "unlink" =>
         /\ promise[r].path \in DOMAIN files
         /\ fileBuffer[r] = files[promise[r].path]
    /\ (pc[r] = "done" /\ promise[r].state = "fulfilled"
          /\ ffmpegError[r] = NoError) =>
         /\ IsTranscoded(response[r])
         /\ response[r].body = fileBuffer[r]
         /\ ParseInt(response[r].contentLength) = Len(response[r].body)
         /\ calls[r].unlink = 1
         /\ unlinkResult[r] \in {"fulfilled", "rejected"}
         /\ unlinkResult[r] = "fulfilled" =>
              promise[r].path \notin DOMAIN files
         /\ unlinkResult[r] = "rejected" /\ promise[r].path \in DOMAIN files
              => files[promise[r].path] = response[r].body

\* C3, its case: a file of two bytes was returned and is gone.
C3_Witness ==
  \E r \in Requests :
    /\ pc[r] = "done" /\ IsTranscoded(response[r])
    /\ Len(response[r].body) = 2
    /\ unlinkResult[r] = "fulfilled"
    /\ promise[r].path \notin DOMAIN files

\* C4: a failed unlink is swallowed: the invocation returns the bytes it
\* read as Transcoded, and nothing was caught.
C4_UnlinkFailureSwallowed ==
  \A r \in Requests :
    (pc[r] = "done" /\ unlinkResult[r] = "rejected") =>
      /\ IsTranscoded(response[r])
      /\ response[r].body = fileBuffer[r]
      /\ ~IsFailed(response[r])
      /\ ~IsInternalError(response[r])
      /\ ffmpegError[r] = NoError

\* C4, its case: the unlink failed, the file is still there, POST returned.
C4_Witness ==
  \E r \in Requests :
    /\ pc[r] = "done" /\ unlinkResult[r] = "rejected"
    /\ promise[r].path \in DOMAIN files
    /\ Len(fileBuffer[r]) > 0

\* C5: a process that never exits by itself leads to a Failed response
\* caused by the timeout, returned after SIGKILL was sent; and no invocation
\* awaiting ffmpeg waits forever.
C5_HangEndsInTimeout ==
  \A r \in Requests :
    /\ (proc[r] = "hung") ~>
         (/\ pc[r] = "done"
          /\ IsFailed(response[r])
          /\ ffmpegError[r] = TimeoutError
          /\ killed[r])
    /\ (pc[r] = "convert") ~> (pc[r] = "done")

\* C5, its case: the hung process was killed and POST returned Failed.
C5_Witness ==
  \E r \in Requests :
    /\ pc[r] = "done" /\ killed[r] /\ timer[r] = "fired"
    /\ proc[r] = "hung"
    /\ IsFailed(response[r]) /\ ffmpegError[r] = TimeoutError

\* C6: when the timer fires while the promise is pending, SIGKILL is sent
\* and the promise is rejected with the timeout error; the close event the
\* kill brings about does not replace it.
C6_TimeoutSupersedes ==
  \A r \in Requests :
    (settled[r] # <<>> /\ settled[r][1].error = TimeoutError) =>
      /\ killed[r]
      /\ calls[r].kill = 1
      /\ promise[r].state = "rejected"
      /\ promise[r].error = TimeoutError
      /\ pc[r] = "done" =>
           IsFailed(response[r]) /\ ffmpegError[r] = TimeoutError

\* C6, its case: the timeout came first, the killed process closed with a
\* null code, and POST has returned.
C6_Witness ==
  \E r \in Requests :
    /\ Len(settled[r]) = 2
    /\ settled[r][1].error = TimeoutError
    /\ settled[r][2].error = CloseError("null", stderr[r])
    /\ proc[r] = "closed" /\ pc[r] = "done"

\* C7: the promise carries the result of the first of the close, error and
\* timeout events, later ones change nothing, and POST goes on from that
\* result alone.
C7_FirstEventWins ==
  \A r \in Requests :
    /\ promise[r].state = "pending" => settled[r] = <<>>
    /\ promise[r].state \in {"fulfilled", "rejected"} =>
         settled[r] # <<>> /\ promise[r] = settled[r][1]
    /\ pc[r] \in {"read", "unlink"} => settled[r][1].state = "fulfilled"
    /\ (pc[r] = "done" /\ settled[r] # <<>>) =>
         IF settled[r][1].state = "rejected"
         THEN ffmpegError[r] = settled[r][1].error /\ IsFailed(response[r])
         ELSE ffmpegError[r] \in {NoError, ReadError}

\* C7, its case: error, close and timeout all happened to one invocation.
C7_Witness ==
  \E r \in Requests :
    /\ Len(settled[r]) = 3
    /\ settled[r][1] # settled[r][2]
    /\ pc[r] = "done"

\* C8: two invocations that failed for causes of different kinds return
\* Failed responses that differ.
C8_FailedCarriesCause ==
  \A r, q \in Requests :
    (/\ pc[r] = "done" /\ IsFailed(response[r])
     /\ pc[q] = "done" /\ IsFailed(response[q])
     /\ FailureKind(ffmpegError[r]) # FailureKind(ffmpegError[q]))
      => response[r] # response[q]

\* C9: a rejection of the ffmpeg promise ends in a Failed response with a
\* non-empty list of tools, never in the 500 response.
C9_FailuresBecomeFailed ==
  \A r \in Requests :
    (pc[r] = "done" /\ promise[r].state = "rejected") =>
      /\ IsFailed(response[r])
      /\ Len(response[r].methods) > 0
      /\ ~IsInternalError(response[r])
      /\ response[r].status = 200

\* C9, its case: the spawn failed and POST returned.
C9_Witness ==
  \E r \in Requests :
    /\ pc[r] = "done" /\ promise[r].state = "rejected"
    /\ FailureKind(ffmpegError[r]) = "ProcessSpawnError"

\* C10: for a non-empty URL ffmpeg is spawned exactly when the URL contains
\* .m3u8; otherwise nothing is spawned or allocated and the response is the
\* direct link with the URL as given.
C10_SpawnIffM3U8 ==
  \A r \in Requests :
    (pc[r] # "idle" /\ Truthy(videoUrl[r])) =>
      /\ (calls[r].spawn = 1) <=> ContainsM3U8(videoUrl[r].val)
      /\ ~ContainsM3U8(videoUrl[r].val) =>
           /\ calls[r].spawn = 0
           /\ outputPath[r] = NoPath
           /\ proc[r] = "none" /\ timer[r] = "none"
           /\ promise[r] = NoPromise
           /\ pc[r] = "done"
           /\ IsDirectLink(response[r])
           /\ response[r].url = videoUrl[r].val

\* C10, its case: a URL holding a proper prefix of the marker got the direct
\* link.
C10_Witness ==
  \E r \in Requests :
    /\ pc[r] = "done" /\ videoUrl[r] = Str(UrlNear)
    /\ IsDirectLink(response[r]) /\ calls[r].spawn = 0


\* request.json() yielded a body for r.
BodyParsed(r) == pc[r] # "idle" /\ ~IsInternalError(response[r])

\* The URL of the body is missing or the empty string.
MissingOrEmpty(x) == ~x.present \/ Len(x.val) = 0

\* C11: a missing or empty URL is answered at once with the 400 response,
\* which is not the Failed response and lists no tools; nothing is spawned
\* and no path allocated.
C11_MissingUrlRejected ==
  \A r \in Requests :
    (BodyParsed(r) /\ MissingOrEmpty(videoUrl[r])) =>
      /\ pc[r] = "done"
      /\ response[r].status = 400
      /\ ~IsFailed(response[r])
      /\ ~IsDirectLink(response[r])
      /\ "methods" \notin DOMAIN response[r]
      /\ calls[r] = NoCalls
      /\ proc[r] = "none" /\ timer[r] = "none"
      /\ outputPath[r] = NoPath
      /\ outputPath[r] \notin DOMAIN files

\* C11, its case: the URL was the empty string.
C11_Witness ==
  \E r \in Requests :
    /\ pc[r] = "done"
    /\ videoUrl[r] = Str(<<>>)
    /\ response[r].status = 400


\* C12: an invocation spawns ffmpeg at most once; one that returned Failed
\* has spawned it exactly once and holds one process and one timer.
C12_NoRetry ==
  \A r \in Requests :
    /\ calls[r].spawn <= 1
    /\ (pc[r] = "done" /\ IsFailed(response[r])) =>
         /\ calls[r].spawn = 1
         /\ ffmpegError[r] # NoError
         /\ ~ENABLED (\E b \in Bodies, u \in UUIDs, o \in SpawnOutcomes :
                        PostHLS(r, b, u, o))

\* C12, its case: ffmpeg exited with 1, POST returned Failed after one spawn.
C12_Witness ==
  \E r \in Requests :
    /\ pc[r] = "done" /\ IsFailed(response[r])
    /\ FailureKind(ffmpegError[r]) = "NonZeroExit"
    /\ calls[r].spawn = 1


\* The first event to settle r's promise was a close with exit code 0.
ClosedWithZeroFirst(r) ==
  /\ settled[r] # <<>>
  /\ settled[r][1].state = "fulfilled"
  /\ closeCode[r] = "0"

\* C13: the temporary file is read, and bytes are returned, only after a
\* close with exit code 0 that came before the timeout; after a rejection
\* nothing is read and no bytes are returned, file on disk or not.
C13_ReadOnlyAfterSuccess ==
  \A r \in Requests :
    /\ (calls[r].readFile > 0 \/ fileBuffer[r] # <<>>
          \/ IsTranscoded(response[r])) => ClosedWithZeroFirst(r)
    /\ (settled[r] # <<>> /\ settled[r][1].state = "rejected") =>
         /\ calls[r].readFile = 0
         /\ fileBuffer[r] = <<>>
         /\ pc[r] \in {"convert", "done"}
         /\ pc[r] = "done" =>
              IsFailed(response[r]) /\ "body" \notin DOMAIN response[r]

\* C13, its case: the timeout won, a partial file is on disk, ffmpeg then
\* closed with code 0, and POST returned Failed without reading.
C13_Witness ==
  \E r \in Requests :
    /\ pc[r] = "done" /\ IsFailed(response[r])
    /\ ffmpegError[r] = TimeoutError
    /\ closeCode[r] = "0"
    /\ outputPath[r] \in DOMAIN files
    /\ calls[r].readFile = 0


\* C14: concurrent invocations own distinct temporary paths, also for the
\* same URL and name; each reads and unlinks its own path only, so a file it
\* has read is still there, unchanged, when it unlinks; and SIGKILL reaches a
\* process only from the timer of its own invocation.
C14_InvocationsIsolated ==
  \A r \in Requests :
    /\ \A q \in Requests \ {r} :
         outputPath[r] # NoPath => outputPath[r] # outputPath[q]
    /\ promise[r].path \in {NoPath, outputPath[r]}
    /\ pc[r] \in {"read", "unlink"} => promise[r].path = outputPath[r]
    /\ pc[r] = "unlink" =>
         /\ outputPath[r] \in DOMAIN files
         /\ files[outputPath[r]] = fileBuffer[r]
    /\ (pc[r] = "done" /\ unlinkResult[r] = "rejected") =>
         outputPath[r] \in DOMAIN files
    /\ killed[r] => timer[r] = "fired" /\ calls[r].kill = 1
    /\ DOMAIN files \subseteq {outputPath[q] : q \in Requests}

\* C14, its case: two invocations of the same URL and name, both files on
\* disk, the first one's process killed by its timer, the second one's alive.
C14_Witness ==
  /\ videoUrl["r1"] = videoUrl["r2"]
  /\ outputPath["r1"].name = outputPath["r2"].name
  /\ outputPath["r1"] \in DOMAIN files
  /\ outputPath["r2"] \in DOMAIN files
  /\ killed["r1"] /\ timer["r2"] = "armed"
  /\ Alive("r2") /\ ~killed["r2"]


\* Control characters, slashes and shell metacharacters.
ControlChars == {"\n", "\t", "\r", "U+0007"}
Slashes == {"/"}
ShellMeta == {";", "!", "\"", "$", "&", "|"}

\* str ends with .mp4, stated on its own.
EndsWithMp4(str) ==
  /\ Len(str) >= 4
  /\ SubSeq(str, Len(str) - 3, Len(str)) = <<".", "m", "p", "4">>

\* C15: the derived file name holds no control character, slash or shell
\* metacharacter, and ends with .mp4.  (The code removes characters only, so
\* such a character in the name comes from the fileName.)
C15_NoUnsafeCharInName ==
  \A r \in Requests :
    (pc[r] = "done" /\ IsDirectLink(response[r])) =>
      /\ \A i \in 1..Len(response[r].fileName) :
           response[r].fileName[i] \notin ControlChars \cup Slashes \cup ShellMeta
      /\ EndsWithMp4(response[r].fileName)


\* Letters (Unicode letters included), digits and white space among the
\* characters of the naming specification.
LetterChars == {"a", "U+89C6", "U+9891"}
DigitChars == {"1"}
WhiteChars == {" ", "\n", "\t"}
\* str without the characters that are no letter, digit, white space or
\* hyphen.
RECURSIVE LettersDigitsSpacesHyphens(_)
LettersDigitsSpacesHyphens(str) ==
  IF str = <<>> THEN <<>>
  ELSE (IF Head(str) \in LetterChars \cup DigitChars \cup WhiteChars \cup {"-"}
        THEN <<Head(str)>> ELSE <<>>)
       \o LettersDigitsSpacesHyphens(Tail(str))

\* C16: the derived name is the fileName without the characters that are no
\* letter (Unicode letters included), digit, white space or hyphen, then
\* .mp4; for a missing or empty fileName it is the default name, which is
\* not empty, then .mp4.
C16_NameIsFilteredHint ==
  \A r \in Requests :
    (pc[r] = "done" /\ IsDirectLink(response[r])) =>
      response[r].fileName =
        IF fileName[r].present /\ fileName[r].val # <<>>
        THEN LettersDigitsSpacesHyphens(fileName[r].val) \o <<".", "m", "p", "4">>
        ELSE <<"U+89C6", "U+9891", ".", "m", "p", "4">>


\* The pieces of str between its double quotes: the text before the first
\* quote, between the first and the second, and so on.
RECURSIVE SplitOnQuotes(_, _)
SplitOnQuotes(str, piece) ==
  IF str = <<>> THEN <<piece>>
  ELSE IF Head(str) = "\""
       THEN <<piece>> \o SplitOnQuotes(Tail(str), <<>>)
       ELSE SplitOnQuotes(Tail(str), Append(piece, Head(str)))

\* The quoted arguments of a command: every second piece.
QuotedArgs(command) ==
  LET pieces == SplitOnQuotes(command, <<>>)
  IN [i \in 1..(Len(pieces) \div 2) |-> pieces[2 * i]]

\* C17: the quoted arguments of each suggested command are exactly the URL
\* and the derived file name.
C17_CommandFieldsRecoverable ==
  \A r \in Requests :
    (pc[r] = "done" /\ IsFailed(response[r])) =>
      \A i \in 1..Len(response[r].methods) :
        "command" \in DOMAIN response[r].methods[i] =>
          QuotedArgs(response[r].methods[i].command)
            = <<videoUrl[r].val, safeFileName[r]>>


\* The text of the chunks, one after the other in the order they came.
RECURSIVE TextOf(_)
TextOf(chunks) ==
  IF chunks = <<>> THEN <<>>
  ELSE DataToString(Head(chunks)) \o TextOf(Tail(chunks))

\* The error is the one the close handler makes.
IsCloseError(error) ==
  error.message # <<>> /\ Head(error.message) = "FFmpeg failed, exit code: "

\* C18: the rejection made on a close with a non-zero code holds that code
\* and the text of every stderr chunk emitted before the close, in order;
\* every such close makes one.
C18_DiagnosticIsAllOfStderr ==
  \A r \in Requests :
    /\ \A i \in 1..Len(settled[r]) :
         IsCloseError(settled[r][i].error) =>
           /\ closeCode[r] \notin {"none", "0"}
           /\ settled[r][i].error.message =
                <<"FFmpeg failed, exit code: ", closeCode[r], "\n">>
                  \o TextOf(emitted[r])
    /\ closeCode[r] \notin {"none", "0"} =>
         \E i \in 1..Len(settled[r]) : IsCloseError(settled[r][i].error)
    /\ (pc[r] = "done" /\ IsCloseError(ffmpegError[r])) =>
         ffmpegError[r].message =
           <<"FFmpeg failed, exit code: ", closeCode[r], "\n">>
             \o TextOf(emitted[r])

\* C18, its case: two different chunks, then exit code 1, caught by POST.
C18_Witness ==
  \E r \in Requests :
    /\ emitted[r] = <<(<<101>>), (<<119>>)>>
    /\ closeCode[r] = "1"
    /\ pc[r] = "done"
    /\ ffmpegError[r].message =
         <<"FFmpeg failed, exit code: ", "1", "\n", "e", "w">>


\* ffmpeg could not be started and its 'error' event has been delivered.
SpawnFailed(r) == proc[r] = "failed" \/ closeCode[r] = "-2"

\* C19: after a failed spawn the promise is rejected with the process error
\* that carries the message of the underlying error, and stays so when the
\* close event of that process and the timeout arrive.
C19_SpawnErrorStands ==
  \A r \in Requests :
    SpawnFailed(r) =>
      /\ promise[r].state = "rejected"
      /\ promise[r].error.message =
           <<"FFmpeg process error: ", "spawn ffmpeg ENOENT">>
      /\ settled[r][1] = promise[r]
      /\ pc[r] = "done" =>
           ffmpegError[r] = promise[r].error /\ IsFailed(response[r])

\* C19, its case: the error event, then the close event with the errno and
\* the timeout, and POST has returned.
C19_Witness ==
  \E r \in Requests :
    /\ closeCode[r] = "-2" /\ timer[r] = "fired"
    /\ Len(settled[r]) = 3
    /\ IsCloseError(settled[r][2].error)
    /\ pc[r] = "done"
    /\ FailureKind(ffmpegError[r]) = "ProcessSpawnError"


\* The promise was first settled by the close or the error handler.
SettledByProcessEvent(r) ==
  settled[r] # <<>> /\ settled[r][1].error # TimeoutError

\* C20: once the promise has been settled through a close or an error
\* event, the timeout callback of that invocation never runs, so no kill is
\* sent to a process that has exited.
C20_TimerDisarmed ==
  \A r \in Requests :
    SettledByProcessEvent(r) => timer[r] # "fired" /\ calls[r].kill = 0

====
